---- MODULE Spec2Model ----
(***************************************************************************)
(* A model of cue::http::router (include/cuehttp/router.hpp): the route    *)
(* table, the registration facade (del/get/head/post/put/all/redirect/     *)
(* prefix), the handler normalisation of register_multiple, the chain      *)
(* composition of compose and the dispatcher returned by routes().         *)
(*                                                                         *)
(* Handlers are user code.  A handler is described by what the router can  *)
(* observe of it: its shape (with or without continuation, free or member, *)
(* bound or not), the value it captured, the status it writes.  How often  *)
(* a with-continuation handler calls its continuation is decided by the    *)
(* handler while it runs, so it is a nondeterministic step of the model.   *)
(***************************************************************************)
EXTENDS Integers, Sequences, FiniteSets, TLC

VARIABLES
    prefix_,     \* router::prefix_
    handlers_,   \* router::handlers_ : route key -> stored callable
    nregs,       \* number of registration calls made so far (bounds the model)
    shadowed,    \* number of emplace calls that found their key taken and
                 \* dropped their callable (history)
    dropped,     \* the callable the last such emplace call dropped (history)
    req,         \* the request being served: Context, dispatcher position, chain cursor
    other        \* a second request, served at the same time as req

vars == <<prefix_, handlers_, nregs, shadowed, dropped, req, other>>

(*************************** bounds ***************************************)
MaxRegs == 2        \* registration calls per run
MaxChain == 3       \* longest handler list passed to one registration
MaxCalls == 2       \* most continuation calls one handler invocation makes
MaxDispatch == 2    \* times the dispatcher is applied to one Context

(*************************** program constants *****************************)
NotFound == 404
DefaultRedirectStatus == 301

\* the static method list of router::all, in its order
Methods == <<"DEL", "GET", "HEAD", "POST", "PUT">>

(*************************** inputs ****************************************)
Prefixes == {"", "/api"}
RegPaths == {"/x"}
CtxPaths == {"/x", "/api/x"}
CtxMethods == {Methods[i] : i \in 1..Len(Methods)}
CtxStatuses == {NotFound, 200}
Destinations == {"/new"}
RedirectStatuses == {302}

\* A user handler.  shape: "mw" takes (context&, next), "term" takes
\* (context&); self: "na" for a free function or lambda, "unbound" for a
\* member pointer given without an instance, "null"/"obj" for a member pointer
\* given with a null / non-null instance.  capKind "owned" is a captured
\* std::string, "ptr" a captured const char*, "none" no capture.  act
\* "redirect" is the lambda of redirect_impl, "user" any other handler.
\* st is the status the handler writes (0: it leaves the status alone).
\* cap is the captured value the handler object holds now, given the value
\* it was created with (history: what the caller wrote).
Handler(id, shape, self, capKind, cap, st, act) ==
    [id |-> id, shape |-> shape, self |-> self, capKind |-> capKind,
     cap |-> cap, given |-> cap, st |-> st, act |-> act]

hA == Handler("A", "mw", "na", "none", "", 200, "user")
hB == Handler("B", "term", "na", "owned", "v", 0, "user")

ChainId(i) == CASE i = 1 -> "h1" [] i = 2 -> "h2" [] i = 3 -> "h3"
                [] i = 4 -> "h4" [] OTHER -> "h5"

\* the i-th handler of the chains the model registers: a lambda with
\* continuation that owns a captured string; the first one writes a status
hChain(i) ==
    Handler(ChainId(i), "mw", "na", "owned", "c", IF i = 1 THEN 200 ELSE 0, "user")

\* An argument of a registration call: the handler and its value category.
Arg(h, rv) == [h |-> h, rv |-> rv]

\* The handler lists registration calls are made with: one handler, passed
\* as an lvalue or as an rvalue; the lambdas h1..hn written in the call.
SingleArgs == {<<Arg(h, rv)>> : h \in {hA, hB}, rv \in BOOLEAN}
ChainOf(n) == [i \in 1..n |-> Arg(hChain(i), TRUE)]
ChainArgs == {ChainOf(n) : n \in 2..MaxChain}
\* A member function pointer of a class T, given with an instance pointer
\* (null or not) or without one.  It captures nothing and writes no status.
hM(shape, self) == Handler("m", shape, self, "none", "", 0, "user")
MemberSelves == {"null", "obj", "unbound"}
MemberHandlers == {hM(shape, self) : shape \in {"mw", "term"}, self \in MemberSelves}

\* The lists with a member handler, or a free terminal handler, alone, first,
\* last and in the middle of free handlers with continuation.
Mixed == MemberHandlers \cup {hB}
MemberArgs ==
    {<<Arg(h, FALSE)>> : h \in MemberHandlers}
    \cup {<<Arg(x, FALSE), Arg(hChain(2), TRUE)>> : x \in Mixed}
    \cup {<<Arg(hChain(1), TRUE), Arg(x, FALSE)>> : x \in Mixed}
    \cup {<<Arg(hChain(1), TRUE), Arg(x, FALSE), Arg(hChain(3), TRUE)>> : x \in Mixed}

\* the lists of the facade specification: every single handler and the
\* shortest list that goes through compose
FacadeArgs == SingleArgs \cup {ChainOf(2)}

(*************************** route keys and the table **********************)
\* method + "+" + prefix_ + std::string{path}, the key built at registration
RouteKey(method, prefix, path) == method \o "+" \o prefix \o path

\* Fault: the table overwrites (insert_or_assign) instead of keeping the
\* entry it has.
EmplaceOverwrite(table, key, callable) ==
    (key :> callable) @@ [k \in DOMAIN table \ {key} |-> table[k]]

\* unordered_map::emplace: inserts only when the key is absent
Emplace(table, key, callable) ==
    IF key \in DOMAIN table THEN table ELSE (key :> callable) @@ table

\* What is left of a handler object after it was moved from: a captured
\* std::string is left empty (libstdc++, libc++ and MSVC all leave it so); a
\* captured pointer or integer is copied and stays.
MovedFrom(h) == IF h.capKind = "owned" THEN [h EXCEPT !.cap = ""] ELSE h

\* The arguments as the caller still holds them after one std::forward of each
\* into a callee that move-constructs from them (consumed): rvalues are
\* moved from, lvalues are copied.
Forwarded(args, consumed) ==
    [i \in DOMAIN args |->
        IF args[i].rv /\ consumed
        THEN [args[i] EXCEPT !.h = MovedFrom(args[i].h)] ELSE args[i]]

(*************************** handler normalisation *************************)
\* The closure register_multiple appends for one handler of a list.
\*   asis                   the handler itself                  (lines 142-155)
\*   call_then_next         func(ctx); next();                  (lines 157-176)
\*   ifself_fwd             if (self) (self->*func)(ctx, next)  (178-188, 220-228)
\*   temp_fwd               (T{}.*func)(ctx, next)              (190-195, 230-234)
\*   ifself_call_then_next  if (self) (self->*func)(ctx); next(); (197-208)
\*   temp_call_then_next    (T{}.*func)(ctx); next();           (210-218)
\*   ifself_call            if (self) (self->*func)(ctx);       (236-244)
\*   temp_call              (T{}.*func)(ctx);                   (246-250)
WrapMultiple(h, isLast) ==
    CASE h.shape = "mw" /\ h.self = "na" -> "asis"
      [] h.shape = "term" /\ h.self = "na" -> "call_then_next"
      [] h.shape = "mw" /\ h.self \in {"null", "obj"} -> "ifself_fwd"
      [] h.shape = "mw" /\ h.self = "unbound" -> "temp_fwd"
      [] h.shape = "term" /\ h.self \in {"null", "obj"} ->
            IF isLast THEN "ifself_call" ELSE "ifself_call_then_next"
      [] OTHER -> IF isLast THEN "temp_call" ELSE "temp_call_then_next"

register_multiple(args) ==
    [i \in 1..Len(args) |->
        [h |-> args[i].h, wrap |-> WrapMultiple(args[i].h, i = Len(args))]]

\* The closure register_with_next / register_without_next stores for a
\* single handler.
WrapSingle(h) ==
    CASE h.shape = "mw" /\ h.self = "na" -> "single_with_next"
      [] h.shape = "term" /\ h.self = "na" -> "single_without_next"
      [] h.shape = "mw" -> "single_mem_with_next"
      [] OTHER -> "single_mem_without_next"

SingleCallable(h) ==
    [form |-> "single", ws |-> <<[h |-> h, wrap |-> WrapSingle(h)]>>]

ComposedCallable(ws) == [form |-> "compose", ws |-> ws]

register_with_next(table, prefix, method, path, h) ==
    Emplace(table, RouteKey(method, prefix, path), SingleCallable(h))

register_without_next(table, prefix, method, path, h) ==
    Emplace(table, RouteKey(method, prefix, path), SingleCallable(h))

compose(table, prefix, method, path, ws) ==
    Emplace(table, RouteKey(method, prefix, path), ComposedCallable(ws))

\* Overload resolution of register_impl: one handler goes to
\* register_with_next / register_without_next, several to
\* register_multiple + compose.
register_impl(table, prefix, method, path, args) ==
    IF Len(args) = 1
    THEN IF args[1].h.shape = "mw"
         THEN register_with_next(table, prefix, method, path, args[1].h)
         ELSE register_without_next(table, prefix, method, path, args[1].h)
    ELSE compose(table, prefix, method, path, register_multiple(args))

\* The callable one register_impl call offers to emplace.
Offered(args) ==
    IF Len(args) = 1 THEN SingleCallable(args[1].h)
    ELSE ComposedCallable(register_multiple(args))

\* History: 1 when the emplace of this register_impl call finds the key
\* taken and returns without inserting, so that the callable offered is
\* dropped, whatever the table holds under the key.
Shadowed(table, prefix, method, path, args) ==
    IF RouteKey(method, prefix, path) \in DOMAIN table THEN 1 ELSE 0

\* History: the callable last dropped, after this register_impl call.
Dropped(table, prefix, method, path, args, last) ==
    IF RouteKey(method, prefix, path) \in DOMAIN table THEN Offered(args) ELSE last

\* Whether one register_impl call move-constructs from its (rvalue) handler
\* arguments.  A list is moved into the vector, a handler with continuation
\* into the capture of the stored closure, both before the table is looked
\* at.  A single free terminal handler is handed to emplace itself: it is
\* moved from when the key is new, and when the key exists only by a library
\* that builds the node before it looks the key up (eager).
Consumes(table, prefix, method, path, args, eager) ==
    IF Len(args) = 1 /\ args[1].h.shape = "term" /\ args[1].h.self = "na"
    THEN eager \/ RouteKey(method, prefix, path) \notin DOMAIN table
    ELSE TRUE

\* router::all: the loop over the five methods, forwarding the same
\* arguments on every iteration; i is the loop position.
RECURSIVE AllFrom(_, _, _, _, _, _)
AllFrom(table, prefix, path, args, eager, i) ==
    IF i > Len(Methods) THEN table
    ELSE AllFrom(register_impl(table, prefix, Methods[i], path, args),
                 prefix, path,
                 Forwarded(args, Consumes(table, prefix, Methods[i], path, args, eager)),
                 eager, i + 1)

all(table, prefix, path, args, eager) == AllFrom(table, prefix, path, args, eager, 1)

\* History: the emplace calls of one all() that dropped their callable.
RECURSIVE AllShadowedFrom(_, _, _, _, _, _)
AllShadowedFrom(table, prefix, path, args, eager, i) ==
    IF i > Len(Methods) THEN 0
    ELSE Shadowed(table, prefix, Methods[i], path, args)
         + AllShadowedFrom(register_impl(table, prefix, Methods[i], path, args),
                           prefix, path,
                           Forwarded(args, Consumes(table, prefix, Methods[i], path, args, eager)),
                           eager, i + 1)

\* History: the callable last dropped, after the calls of one all().
RECURSIVE AllDroppedFrom(_, _, _, _, _, _, _)
AllDroppedFrom(table, prefix, path, args, eager, i, last) ==
    IF i > Len(Methods) THEN last
    ELSE AllDroppedFrom(register_impl(table, prefix, Methods[i], path, args),
                        prefix, path,
                        Forwarded(args, Consumes(table, prefix, Methods[i], path, args, eager)),
                        eager, i + 1,
                        Dropped(table, prefix, Methods[i], path, args, last))

RedirectArgs(destination, destKind, status) ==
    <<[h |-> [id |-> "redirect", shape |-> "term", self |-> "na",
              capKind |-> destKind, cap |-> destination,
              given |-> destination, st |-> status, act |-> "redirect"],
       rv |-> TRUE]>>

\* redirect_impl: all(path, lambda) with a lambda (an rvalue) that captured
\* the destination by value and the status.
redirect_impl(table, prefix, path, destination, destKind, status, eager) ==
    all(table, prefix, path, RedirectArgs(destination, destKind, status), eager)

(*************************** running a stored callable *********************)
\* Whether the closure stored for a handler calls the user's function, and
\* on which instance: the bound one, or a temporary T{}.
Invoked(w) ==
    IF w.wrap \in {"ifself_fwd", "ifself_call_then_next", "ifself_call"}
    THEN w.h.self = "obj" ELSE TRUE

Instance(w) ==
    CASE w.h.self = "na" -> "na"
      [] w.h.self = "obj" -> "obj"
      [] OTHER -> "temp"

\* Fault: the closure of a bound terminal member calls the continuation
\* inside its if (self), so a null instance stops the list.
NextPolicyInsideIf(w) ==
    CASE w.wrap \in {"asis", "temp_fwd", "single_with_next", "single_mem_with_next"}
            -> "user"
      [] w.wrap = "ifself_fwd" -> IF w.h.self = "obj" THEN "user" ELSE "none"
      [] w.wrap = "ifself_call_then_next" -> IF w.h.self = "obj" THEN "once" ELSE "none"
      [] w.wrap \in {"call_then_next", "temp_call_then_next"} -> "once"
      [] OTHER -> "none"

\* Who calls the continuation the closure was given: "user" the handler's own
\* code, as often as it likes; "once" the closure, exactly once after the
\* handler returned; "none" nobody.
NextPolicy(w) ==
    CASE w.wrap \in {"asis", "temp_fwd", "single_with_next", "single_mem_with_next"}
            -> "user"
      [] w.wrap = "ifself_fwd" -> IF w.h.self = "obj" THEN "user" ELSE "none"
      [] w.wrap \in {"call_then_next", "ifself_call_then_next", "temp_call_then_next"}
            -> "once"
      [] OTHER -> "none"

\* What a handler does to the Context when its function runs.  The lambda of
\* redirect_impl: ctx.redirect(destination); ctx.status(status).
Effect(h, ctx) ==
    IF h.act = "redirect"
    THEN [ctx EXCEPT !.redirect = h.cap, !.status = h.st]
    ELSE IF h.st # 0 THEN [ctx EXCEPT !.status = h.st] ELSE ctx

Event(ev, pos, w) ==
    [ev |-> ev, pos |-> pos, id |-> w.h.id, cap |-> w.h.cap,
     given |-> w.h.given, inst |-> Instance(w)]

NoCallable == [form |-> "none", ws |-> <<>>]
NoContext == [method |-> "", path |-> "", status |-> 0, redirect |-> ""]

\* No request in flight.  ndisp counts the dispatchers of the pipeline applied
\* to the Context so far, hits those of them that ran a stored callable
\* (history).
Idle ==
    [pc |-> "idle", ctx |-> NoContext, ctx0 |-> NoContext, res |-> "none",
     cur |-> NoCallable, stack |-> <<>>, index |-> 0, log |-> <<>>,
     ndisp |-> 0, hits |-> 0, ub |-> FALSE]

\* handlers[pos](ctx, next): the closure at (0-based) position pos starts.
EnterHandler(r, pos) ==
    LET w == r.cur.ws[pos + 1] IN
    [r EXCEPT !.stack = Append(@, [pos |-> pos, made |-> 0]),
              !.log = IF Invoked(w) THEN Append(@, Event("enter", pos, w)) ELSE @,
              !.ctx = IF Invoked(w) THEN Effect(w.h, @) ELSE @]

\* What the build may do on handlers[index] with index beyond the vector: the
\* read is undefined.  It may fault, find an empty std::function (which throws
\* bad_function_call), or call something that returns.
OutOfRange(r) ==
    {[r EXCEPT !.ub = TRUE, !.pc = o] : o \in {"crashed", "thrown", "running"}}

\* Fault: the cursor test stops one position early, so the last handler of
\* the list is never reached.
ComposeNextOffByOne(r) ==
    LET i == r.index + 1
        r1 == [r EXCEPT !.index = i]
    IN  IF i >= Len(r.cur.ws) - 1 THEN {r1} ELSE {EnterHandler(r1, i)}

\* The continuation of compose for a list of two or more handlers:
\*   if (++index == handlers.size()) return;  handlers[index](ctx, next);
ComposeNext(r) ==
    LET i == r.index + 1
        r1 == [r EXCEPT !.index = i]
    IN  IF i = Len(r.cur.ws) THEN {r1}
        ELSE IF i < Len(r.cur.ws) THEN {EnterHandler(r1, i)}
        ELSE OutOfRange(r1)

\* One call of the continuation a running closure holds.  For a single
\* handler and for a list of one it is the empty lambda.
Continuation(r) ==
    IF r.cur.form = "compose" /\ Len(r.cur.ws) >= 2 THEN ComposeNext(r) ELSE {r}

\* The callable compose stored, applied to the Context.
RunComposed(r) ==
    IF Len(r.cur.ws) = 0 THEN [r EXCEPT !.pc = "done"]
    ELSE EnterHandler([r EXCEPT !.pc = "running", !.index = 0], 0)

\* Fault: the dispatcher forgets the prefix in its key.
LookupKeyNoPrefix(method, prefix, path) == method \o "+" \o path

\* The key the dispatcher looks up.
LookupKey(method, prefix, path) == method \o "+" \o prefix \o path

\* Fault: the dispatcher does not test the status, and runs a matching
\* route for a Context that was already handled.
make_routes_NoStatusTest(r, prefix, table) ==
    LET r0 == [r EXCEPT !.ctx0 = r.ctx, !.log = <<>>, !.ndisp = @ + 1,
                        !.stack = <<>>, !.index = 0, !.cur = NoCallable]
        key == LookupKey(r.ctx.method, prefix, r.ctx.path)
    IN  IF key \notin DOMAIN table
        THEN [r0 EXCEPT !.pc = "done", !.res = "miss"]
        ELSE RunComposed([r0 EXCEPT !.res = "hit", !.cur = table[key],
                                    !.hits = @ + 1])

\* Fault: the dispatcher marks the Context handled (200) itself before it
\* runs the matching route.
make_routes_WritesStatus(r, prefix, table) ==
    LET r0 == [r EXCEPT !.ctx0 = r.ctx, !.log = <<>>, !.ndisp = @ + 1,
                        !.stack = <<>>, !.index = 0, !.cur = NoCallable]
        key == LookupKey(r.ctx.method, prefix, r.ctx.path)
    IN  IF r.ctx.status # NotFound
        THEN [r0 EXCEPT !.pc = "done", !.res = "skip"]
        ELSE IF key \notin DOMAIN table
        THEN [r0 EXCEPT !.pc = "done", !.res = "miss"]
        ELSE RunComposed([r0 EXCEPT !.res = "hit", !.cur = table[key],
                                    !.hits = @ + 1, !.ctx.status = 200])

\* The closure of make_routes applied to the Context of r.
make_routes(r, prefix, table) ==
    LET r0 == [r EXCEPT !.ctx0 = r.ctx, !.log = <<>>, !.ndisp = @ + 1,
                        !.stack = <<>>, !.index = 0, !.cur = NoCallable]
        key == LookupKey(r.ctx.method, prefix, r.ctx.path)
    IN  IF r.ctx.status # NotFound
        THEN [r0 EXCEPT !.pc = "done", !.res = "skip"]
        ELSE IF key \notin DOMAIN table
        THEN [r0 EXCEPT !.pc = "done", !.res = "miss"]
        ELSE RunComposed([r0 EXCEPT !.res = "hit", !.cur = table[key],
                                    !.hits = @ + 1])

\* Fault: when its first handler has returned the composed callable starts
\* over with it instead of returning.
AfterReturnRestart(r) ==
    LET f == r.stack[Len(r.stack)]
        rest == SubSeq(r.stack, 1, Len(r.stack) - 1)
    IN  IF rest = <<>>
        THEN EnterHandler([r EXCEPT !.stack = <<>>, !.log = <<>>, !.index = 0], 0)
        ELSE [r EXCEPT !.stack = rest,
                       !.log = Append(@, Event("exit", f.pos, r.cur.ws[f.pos + 1]))]

\* Fault: the continuation only schedules the next handler, so the oldest
\* closure still open is the one that completes first.
AfterReturnFifo(r) ==
    LET f == r.stack[1]
        rest == Tail(r.stack)
    IN  [r EXCEPT !.stack = rest,
                  !.log = Append(@, Event("exit", f.pos, r.cur.ws[f.pos + 1])),
                  !.pc = IF rest = <<>> THEN "done" ELSE "running"]

\* The closure on top of the stack returns: control is back in its caller,
\* and the dispatcher is done when that was the stored callable itself.
AfterReturn(r) ==
    LET f == r.stack[Len(r.stack)]
        rest == SubSeq(r.stack, 1, Len(r.stack) - 1)
    IN  [r EXCEPT !.stack = rest,
                  !.log = Append(@, Event("exit", f.pos, r.cur.ws[f.pos + 1])),
                  !.pc = IF rest = <<>> THEN "done" ELSE "running"]

\* Fault: the cursor belongs to the stored callable, not to its invocation,
\* so a dispatch that runs while another one does continues from the
\* position the other has reached.
SharedCursor(me, peer) == IF peer.pc = "running" THEN peer.index ELSE me.index

\* The cursor a continuation increments: index is a local of the invocation
\* of the stored callable, one for every dispatch.
OwnCursor(me, peer) == me.index

Top(r) == r.stack[Len(r.stack)]
TopWrap(r) == r.cur.ws[Top(r).pos + 1]

\* Fault: the composed callable catches what a handler throws, and goes on
\* in the handler that called it as if it had returned.
UnwindCaught(r) ==
    LET f == r.stack[Len(r.stack)]
        rest == SubSeq(r.stack, 1, Len(r.stack) - 1)
    IN  [r EXCEPT !.stack = rest,
                  !.log = Append(@, Event("throw", f.pos, r.cur.ws[f.pos + 1])),
                  !.pc = IF rest = <<>> THEN "done" ELSE "running"]

\* The function of the handler on top of the stack throws.  No closure of
\* the router has a try block, and the handlers modelled have none around
\* their continuation call: every frame is unwound and the exception leaves
\* the dispatcher.
Unwind(r) ==
    LET f == r.stack[Len(r.stack)]
    IN  [r EXCEPT !.stack = <<>>,
                  !.log = Append(@, Event("throw", f.pos, r.cur.ws[f.pos + 1])),
                  !.pc = "thrown"]

(*************************** actions ***************************************)
Configuring == req.pc = "idle" /\ other.pc = "idle" /\ nregs < MaxRegs

\* del / get / head / post / put (path, handlers...)
Register(method, lists) ==
    /\ Configuring
    /\ \E path \in RegPaths, args \in lists :
          /\ handlers_' = register_impl(handlers_, prefix_, method, path, args)
          /\ shadowed' = shadowed + Shadowed(handlers_, prefix_, method, path, args)
          /\ dropped' = Dropped(handlers_, prefix_, method, path, args, dropped)
    /\ nregs' = nregs + 1
    /\ UNCHANGED <<prefix_, req, other>>

DelRoute == Register("DEL", FacadeArgs)
GetRoute == Register("GET", FacadeArgs)
HeadRoute == Register("HEAD", FacadeArgs)
PostRoute == Register("POST", FacadeArgs)
PutRoute == Register("PUT", FacadeArgs)

AllRoutes ==
    /\ Configuring
    /\ \E path \in RegPaths, args \in FacadeArgs, eager \in BOOLEAN :
          /\ handlers_' = all(handlers_, prefix_, path, args, eager)
          /\ shadowed' = shadowed
                + AllShadowedFrom(handlers_, prefix_, path, args, eager, 1)
          /\ dropped' = AllDroppedFrom(handlers_, prefix_, path, args, eager, 1, dropped)
    /\ nregs' = nregs + 1
    /\ UNCHANGED <<prefix_, req, other>>

\* redirect(path, destination)
Redirect2 ==
    /\ Configuring
    /\ \E path \in RegPaths, d \in Destinations, k \in {"ptr", "owned"},
          eager \in BOOLEAN :
          /\ handlers_' = redirect_impl(handlers_, prefix_, path, d, k,
                                        DefaultRedirectStatus, eager)
          /\ shadowed' = shadowed
                + AllShadowedFrom(handlers_, prefix_, path,
                                  RedirectArgs(d, k, DefaultRedirectStatus), eager, 1)
          /\ dropped' = AllDroppedFrom(handlers_, prefix_, path,
                                       RedirectArgs(d, k, DefaultRedirectStatus),
                                       eager, 1, dropped)
    /\ nregs' = nregs + 1
    /\ UNCHANGED <<prefix_, req, other>>

\* redirect(path, destination, status)
Redirect3 ==
    /\ Configuring
    /\ \E path \in RegPaths, d \in Destinations, k \in {"ptr", "owned"},
          st \in RedirectStatuses, eager \in BOOLEAN :
          /\ handlers_' = redirect_impl(handlers_, prefix_, path, d, k, st, eager)
          /\ shadowed' = shadowed
                + AllShadowedFrom(handlers_, prefix_, path,
                                  RedirectArgs(d, k, st), eager, 1)
          /\ dropped' = AllDroppedFrom(handlers_, prefix_, path,
                                       RedirectArgs(d, k, st), eager, 1, dropped)
    /\ nregs' = nregs + 1
    /\ UNCHANGED <<prefix_, req, other>>

\* Fault: prefix(p) rebuilds the table for the new prefix and loses the
\* entries registered under the old one.
SetPrefixRetroactive ==
    /\ req.pc = "idle" /\ other.pc = "idle"
    /\ \E p \in Prefixes : p # prefix_ /\ prefix_' = p
    /\ handlers_' = <<>>
    /\ UNCHANGED <<nregs, shadowed, dropped, req, other>>

\* router::prefix(p)
SetPrefix ==
    /\ req.pc = "idle" /\ other.pc = "idle"
    /\ \E p \in Prefixes : p # prefix_ /\ prefix_' = p
    /\ UNCHANGED <<handlers_, nregs, shadowed, dropped, req, other>>

\* The server hands a fresh Context to the pipeline.
NewRequest ==
    /\ req.pc = "idle"
    /\ \E m \in CtxMethods, p \in CtxPaths, s \in CtxStatuses :
          req' = [Idle EXCEPT !.pc = "ready",
                              !.ctx = [method |-> m, path |-> p, status |-> s,
                                       redirect |-> ""]]
    /\ UNCHANGED <<prefix_, handlers_, nregs, shadowed, dropped, other>>

\* routes()(ctx): the next dispatcher of the pipeline is applied to the
\* Context (a pipeline is the router's dispatcher mounted several times)
Dispatch ==
    /\ req.pc \in {"ready", "done"}
    /\ req.ndisp < MaxDispatch
    /\ req' = make_routes(req, prefix_, handlers_)
    /\ UNCHANGED <<prefix_, handlers_, nregs, shadowed, dropped, other>>

\* The code running on top of the stack calls the continuation it was given.
CallNext ==
    /\ req.pc = "running"
    /\ LET f == Top(req)
           pol == NextPolicy(TopWrap(req))
           r1 == [req EXCEPT !.stack[Len(req.stack)].made = @ + 1,
                             !.log = Append(@, Event("next", f.pos, TopWrap(req))),
                             !.index = OwnCursor(req, other)]
       IN  /\ \/ pol = "user" /\ f.made < MaxCalls
              \/ pol = "once" /\ f.made = 0
           /\ req' \in Continuation(r1)
    /\ UNCHANGED <<prefix_, handlers_, nregs, shadowed, dropped, other>>

\* The closure on top of the stack returns to its caller.
Return ==
    /\ req.pc = "running"
    /\ NextPolicy(TopWrap(req)) = "once" => Top(req).made = 1
    /\ req' = AfterReturn(req)
    /\ UNCHANGED <<prefix_, handlers_, nregs, shadowed, dropped, other>>

\* The user function running on top of the stack throws an exception.
Throw ==
    /\ req.pc = "running"
    /\ Invoked(TopWrap(req))
    /\ NextPolicy(TopWrap(req)) = "once" => Top(req).made = 0
    /\ req' = Unwind(req)
    /\ UNCHANGED <<prefix_, handlers_, nregs, shadowed, dropped, other>>

\* The server is finished with the Context.
Drop ==
    /\ req.pc \in {"ready", "done", "thrown", "crashed"}
    /\ req' = Idle
    /\ UNCHANGED <<prefix_, handlers_, nregs, shadowed, dropped, other>>

Init ==
    /\ prefix_ \in Prefixes
    /\ handlers_ = <<>>
    /\ nregs = 0
    /\ shadowed = 0
    /\ dropped = NoCallable
    /\ req = Idle
    /\ other = Idle

Next ==
    \/ DelRoute \/ GetRoute \/ HeadRoute \/ PostRoute \/ PutRoute \/ AllRoutes \/ Redirect2 \/ Redirect3
    \/ SetPrefix \/ NewRequest \/ Dispatch \/ CallNext \/ Return \/ Drop

Spec == Init /\ [][Next]_vars

\* The composer alone: routes registered with get(path, h1, ..., hn) for
\* every list length, and requests served through them.
GetChain == Register("GET", ChainArgs)

NextChain ==
    \/ GetChain \/ NewRequest \/ Dispatch \/ CallNext \/ Return \/ Drop

SpecChain == Init /\ [][NextChain]_vars

\* Handlers that may fail: lists of free handlers and of member handlers,
\* served with handlers that call their continuation, return or throw.
GetFailing == Register("GET", ChainArgs \cup MemberArgs)

NextThrow ==
    \/ GetFailing \/ NewRequest \/ Dispatch \/ CallNext \/ Return \/ Throw \/ Drop

SpecThrow == Init /\ [][NextThrow]_vars

\* Handlers that call their continuation at most once and that terminate:
\* a handler's invocation makes its first continuation call or returns, and
\* does not stay in its own code for ever.
CallNextOnce ==
    /\ req.pc = "running"
    /\ Top(req).made = 0
    /\ CallNext

GetList == Register("GET", SingleArgs \cup ChainArgs)

NextTerm ==
    \/ GetList \/ NewRequest \/ Dispatch \/ CallNextOnce \/ Return \/ Drop

SpecTerm == Init /\ [][NextTerm]_vars /\ WF_vars(CallNextOnce \/ Return)

\* A second Context served while the first one is: the same steps, on other.
\* Its handlers call their continuation at most once; those of the first do
\* as they like.
OtherRequest ==
    /\ other.pc = "idle"
    /\ \E p \in CtxPaths :
          other' = [Idle EXCEPT !.pc = "ready",
                                !.ctx = [method |-> "GET", path |-> p,
                                         status |-> NotFound, redirect |-> ""]]
    /\ UNCHANGED <<prefix_, handlers_, nregs, shadowed, dropped, req>>

\* the second Context passes the dispatcher once
OtherDispatch ==
    /\ other.pc = "ready"
    /\ other' = make_routes(other, prefix_, handlers_)
    /\ UNCHANGED <<prefix_, handlers_, nregs, shadowed, dropped, req>>

OtherCallNext ==
    /\ other.pc = "running"
    /\ LET f == Top(other)
           pol == NextPolicy(TopWrap(other))
           r1 == [other EXCEPT !.stack[Len(other.stack)].made = @ + 1,
                               !.log = Append(@, Event("next", f.pos, TopWrap(other))),
                               !.index = OwnCursor(other, req)]
       IN  /\ pol \in {"user", "once"}
           /\ f.made = 0
           /\ other' \in Continuation(r1)
    /\ UNCHANGED <<prefix_, handlers_, nregs, shadowed, dropped, req>>

OtherReturn ==
    /\ other.pc = "running"
    /\ NextPolicy(TopWrap(other)) = "once" => Top(other).made = 1
    /\ other' = AfterReturn(other)
    /\ UNCHANGED <<prefix_, handlers_, nregs, shadowed, dropped, req>>

OtherDrop ==
    /\ other.pc \in {"ready", "done", "thrown", "crashed"}
    /\ other' = Idle
    /\ UNCHANGED <<prefix_, handlers_, nregs, shadowed, dropped, req>>

\* Two Contexts in flight at once on routes registered with a handler list.
NextPair ==
    \/ GetChain \/ NewRequest \/ Dispatch \/ CallNext \/ Return \/ Drop
    \/ OtherRequest \/ OtherDispatch \/ OtherCallNext \/ OtherReturn \/ OtherDrop

SpecPair == Init /\ [][NextPair]_vars

\* Member handlers: routes registered with get(path, ...) for a member
\* function pointer alone and in lists, and requests served through them.
GetMember == Register("GET", MemberArgs)

NextMember ==
    \/ GetMember \/ NewRequest \/ Dispatch \/ CallNext \/ Return \/ Drop

SpecMember == Init /\ [][NextMember]_vars

(*************************** properties ************************************)
\* The dispatch of req has ended: normally, by an exception, or by a fault.
Terminated(r) == r.pc \in {"done", "thrown", "crashed"}

\* number of events ev of the handler at position pos in the log of a dispatch
Count(log, ev, pos) == Len(SelectSeq(log, LAMBDA e : e.ev = ev /\ e.pos = pos))

Entered(log) == SelectSeq(log, LAMBDA e : e.ev = "enter")
EnteredIds(log) == [i \in 1..Len(Entered(log)) |-> Entered(log)[i].id]
ListIds(c) == [i \in 1..Len(c.ws) |-> c.ws[i].h.id]

\* the dispatch hit a route registered with a list of two or more handlers
HitChain(r) == r.res = "hit" /\ r.cur.form = "compose" /\ Len(r.cur.ws) >= 2
Positions(r) == 0..(Len(r.cur.ws) - 1)

\* every handler that ran called its continuation exactly once
EachCalledOnce(r) ==
    \A pos \in Positions(r) :
        Count(r.log, "enter", pos) >= 1 => Count(r.log, "next", pos) = 1

\* C1: a dispatch through a list of N >= 2 handlers that each call their
\* continuation exactly once ends normally having run every handler exactly
\* once, in registration order.
C1_EachOnceInOrder ==
    (Terminated(req) /\ HitChain(req) /\ EachCalledOnce(req))
        => /\ req.pc = "done"
           /\ ~req.ub
           /\ EnteredIds(req.log) = ListIds(req.cur)

C1_Witness ==
    /\ req.pc = "done" /\ HitChain(req) /\ EachCalledOnce(req)
    /\ EnteredIds(req.log) = <<"h1", "h2", "h3">>

\* The key under which a registration made now for (method, path) is stored,
\* and so the key of a route registered for them under the present prefix.
Registered(method, path) == RouteKey(method, prefix_, path) \in DOMAIN handlers_

\* C2: with a non-empty prefix P and a handler registered for (M, S), the
\* dispatch of (M, P+S) matches and the dispatch of (M, S) does not.
C2_PrefixedPathMatches ==
    \A S \in RegPaths :
        (/\ req.ndisp >= 1
         /\ req.ctx0.status = NotFound
         /\ prefix_ # ""
         /\ Registered(req.ctx0.method, S))
        => /\ req.ctx0.path = prefix_ \o S => req.res = "hit"
           /\ req.ctx0.path = S => req.res # "hit"

\* C3: when h1 calls its continuation twice, h2 runs twice in that dispatch.
C3_SecondCallRerunsRest ==
    (Terminated(req) /\ HitChain(req) /\ Count(req.log, "next", 0) = 2)
        => Count(req.log, "enter", 1) = 2

\* C4: when a handler h_i of a list has returned without having called its
\* continuation, no handler after h_i has run in that dispatch and each of
\* h_1..h_i has run exactly once.  (Stated of the dispatches that returned
\* normally with every access in range.)
C4_ShortCircuit ==
    (req.pc = "done" /\ ~req.ub /\ HitChain(req))
        => \A i \in Positions(req) :
              (/\ Count(req.log, "enter", i) >= 1
               /\ Count(req.log, "exit", i) >= 1
               /\ Count(req.log, "next", i) = 0)
              => \A j \in Positions(req) :
                    Count(req.log, "enter", j) = IF j <= i THEN 1 ELSE 0

\* the step is one application of the dispatcher to the Context
DispatchStep == req.pc \in {"ready", "done"} /\ req'.ndisp = req.ndisp + 1

\* C5: first registration wins.  No step changes or removes an entry the
\* table holds, so a registration under a key that is taken leaves the
\* entry of the earliest registration in place; and a dispatch that matches
\* runs the entry the table holds for its key.
C5_FirstWins ==
    [][/\ \A k \in DOMAIN handlers_ :
             k \in DOMAIN handlers_' /\ handlers_'[k] = handlers_[k]
       /\ (DispatchStep /\ req'.res = "hit")
             => req'.cur = handlers_[RouteKey(req.ctx.method, prefix_, req.ctx.path)]
      ]_vars

\* two registrations for one key, the second one with another callable,
\* which was dropped, and a dispatch that ran the entry of the first
C5_Witness ==
    /\ nregs = 2 /\ shadowed = 1 /\ Cardinality(DOMAIN handlers_) = 1
    /\ req.pc = "done" /\ req.res = "hit"
    /\ \E k \in DOMAIN handlers_ : req.cur = handlers_[k] /\ dropped # handlers_[k]
    /\ EnteredIds(req.log) = <<req.cur.ws[1].h.id>>

\* C6: after all(path, handlers...) the dispatch of any of the five methods
\* runs the handlers with the captured values they were passed with.
C6_AllSameCaptures ==
    (/\ nregs = 1 /\ Cardinality(DOMAIN handlers_) = Len(Methods)
     /\ Terminated(req) /\ req.res = "hit"
     /\ req.cur.ws[1].h.act = "user")
        => \A i \in 1..Len(req.log) :
              req.log[i].ev = "enter" => req.log[i].cap = req.log[i].given

\* C7: after redirect(path, destination[, status]) a dispatch on that path
\* leaves the redirect target at destination and the status at status.
C7_RedirectTarget ==
    (/\ req.pc = "done" /\ req.res = "hit"
     /\ req.cur.ws[1].h.act = "redirect")
        => /\ req.ctx.redirect = req.cur.ws[1].h.given
           /\ req.ctx.status = req.cur.ws[1].h.st

\* C8: the dispatcher applied to a Context whose status is not 404 has
\* ended at once, has run no handler and has left the Context as it was,
\* the first time and every further time.
C8_SkipHandled ==
    (req.ndisp >= 1 /\ req.ctx0.status # NotFound)
        => /\ req.pc = "done"
           /\ req.log = <<>>
           /\ req.stack = <<>>
           /\ req.ctx = req.ctx0

C8_Witness ==
    /\ req.ndisp = 2 /\ req.pc = "done"
    /\ req.ctx0.status # NotFound
    /\ Registered(req.ctx0.method, req.ctx0.path)

\* C9: a dispatch of (M, path, 404) for which a single handler is registered
\* runs that handler exactly once, and leaves the Context exactly as the
\* handler's function leaves it.
C9_SingleHandlerOnce ==
    (/\ req.pc = "done" /\ req.ctx0.status = NotFound
     /\ Registered(req.ctx0.method, req.ctx0.path)
     /\ handlers_[RouteKey(req.ctx0.method, prefix_, req.ctx0.path)].form = "single")
        => LET c == handlers_[RouteKey(req.ctx0.method, prefix_, req.ctx0.path)]
           IN  /\ req.res = "hit"
               /\ EnteredIds(req.log) = <<c.ws[1].h.id>>
               /\ req.ctx = Effect(c.ws[1].h, req.ctx0)

\* one single user handler ran once and the status is the 200 it wrote
C9_Witness ==
    /\ req.pc = "done" /\ req.res = "hit" /\ req.cur.form = "single"
    /\ req.cur.ws[1].h.act = "user"
    /\ Len(Entered(req.log)) = 1
    /\ req.ctx.status = 200

\* C10: a dispatch of an unhandled Context whose key is not in the table has
\* ended normally, has run no handler and has left the Context as it was.
C10_MissIsNoOp ==
    (/\ req.ndisp >= 1 /\ req.ctx0.status = NotFound
     /\ ~Registered(req.ctx0.method, req.ctx0.path))
        => /\ req.pc = "done"
           /\ ~req.ub
           /\ req.res = "miss"
           /\ req.log = <<>>
           /\ req.ctx = req.ctx0

\* a miss although the table holds a route of the same method whose key
\* differs from the looked-up key only by the prefix
C10_Witness ==
    /\ req.pc = "done" /\ req.res = "miss" /\ req.ctx0.status = NotFound
    /\ prefix_ # ""
    /\ req.ctx0.path = "/api/x"
    /\ RouteKey(req.ctx0.method, "", req.ctx0.path) \in DOMAIN handlers_

\* C11: prefix(p) changes the prefix and nothing else: every entry of the
\* table keeps its key and its callable; and every key a later step adds is
\* built with the prefix the router has at that step.
C11_PrefixFrame ==
    [][/\ prefix_' # prefix_
            => /\ handlers_' = handlers_
               /\ req' = req
       /\ \A k \in DOMAIN handlers_' \ DOMAIN handlers_ :
             /\ prefix_' = prefix_
             /\ \E m \in CtxMethods, path \in RegPaths :
                    k = m \o "+" \o prefix_ \o path
      ]_vars

\* a route registered before the prefix was changed is still in the table
\* under its old key, next to one registered after the change
C11_Witness ==
    /\ prefix_ = "/api"
    /\ \E m1 \in CtxMethods, m2 \in CtxMethods :
          DOMAIN handlers_ = {m1 \o "+" \o "/x", m2 \o "+" \o "/api/x"}

\* C12: in a dispatch through a list of N >= 2 handlers every access
\* handlers[index] is made with index in 0..N-1, however often the handlers
\* call their continuation.  (ub records an access made with index > N-1.)
C12_CursorInRange ==
    HitChain(req)
        => /\ ~req.ub
           /\ \A i \in 1..Len(req.stack) : req.stack[i].pos \in Positions(req)

\* C13: a member function registered with a null instance is never called,
\* neither when it is the only handler of its route nor in a list.
C13_NullNeverInvoked ==
    \A i \in 1..Len(req.log) :
        req.log[i].ev = "enter" => req.cur.ws[req.log[i].pos + 1].h.self # "null"

\* the closure at position pos has returned
Exited(r, pos) == Count(r.log, "exit", pos) >= 1

\* C14, what has happened when a closure of a list has returned.  A terminal
\* handler that is not last: its continuation was called once and the next
\* closure has run, and the handler's function was called once unless its
\* instance is null, and then not at all.  A handler with continuation
\* bound to a null instance: neither its function nor its continuation was
\* called.
C14_Returned ==
    HitChain(req) =>
        \A i \in Positions(req) :
            LET h == req.cur.ws[i + 1].h IN
            /\ (h.shape = "term" /\ i + 1 < Len(req.cur.ws) /\ Exited(req, i))
                  => /\ Count(req.log, "next", i) = 1
                     /\ Exited(req, i + 1)
                     /\ Count(req.log, "enter", i) = IF h.self = "null" THEN 0 ELSE 1
            /\ (h.shape = "mw" /\ h.self = "null")
                  => /\ Count(req.log, "next", i) = 0
                     /\ Count(req.log, "enter", i) = 0

\* C14, the step of a closure with continuation bound to a null instance:
\* it returns at once, with the cursor where it was and nothing run.
C14_NullStops ==
    (/\ req.pc = "running" /\ HitChain(req)
     /\ TopWrap(req).h.shape = "mw" /\ TopWrap(req).h.self = "null")
        => /\ req'.index = req.index
           /\ req'.stack = SubSeq(req.stack, 1, Len(req.stack) - 1)
           /\ Entered(req'.log) = Entered(req.log)

\* C14: in a list a terminal handler that is not last always falls through
\* to the next handler, also when it is bound to a null instance (its member
\* is skipped, the continuation still called); a handler with continuation
\* bound to a null instance calls neither and stops the list.
C14_TerminalFallsThrough == []C14_Returned /\ [][C14_NullStops]_vars

\* a terminal member bound to a null instance, first of a list: it was
\* skipped and the handler after it ran
C14_Witness ==
    /\ req.pc = "done" /\ HitChain(req)
    /\ req.cur.ws[1].h.shape = "term" /\ req.cur.ws[1].h.self = "null"
    /\ Count(req.log, "enter", 0) = 0 /\ Count(req.log, "next", 0) = 1
    /\ Count(req.log, "enter", 1) = 1

\* every handler of the dispatch r that ran has called its continuation at
\* most once so far
EachCalledAtMostOnce(r) ==
    \A pos \in Positions(r) : Count(r.log, "next", pos) <= 1

\* the dispatch r has seen its handlers in list order, each once, as far as
\* it has got; and all of them when it has ended with every one having called
SeesInOrder(r) ==
    (HitChain(r) /\ EachCalledAtMostOnce(r))
        => /\ ~r.ub
           /\ Len(Entered(r.log)) <= Len(r.cur.ws)
           /\ EnteredIds(r.log) = SubSeq(ListIds(r.cur), 1, Len(Entered(r.log)))
           /\ (Terminated(r) /\ EachCalledOnce(r))
                 => r.pc = "done" /\ EnteredIds(r.log) = ListIds(r.cur)

\* C15: two dispatches of routes with handler lists, interleaved step by
\* step, each have their own cursor: each sees its handlers in order, each
\* once, whatever the other one does, and a handler that does not call its
\* continuation stops its own dispatch only.
C15_Independent == SeesInOrder(req) /\ SeesInOrder(other)

\* both Contexts are inside the same list at once: one in h1, which has not
\* called its continuation, the other already in h2
C15_Witness ==
    /\ req.pc = "running" /\ other.pc = "running"
    /\ HitChain(req) /\ req.cur = other.cur
    /\ Len(req.stack) = 1 /\ Top(req).made = 0
    /\ Len(other.stack) = 2 /\ EnteredIds(other.log) = <<"h1", "h2">>

Exits(log) == SelectSeq(log, LAMBDA e : e.ev = "exit")
ExitedIds(log) == [i \in 1..Len(Exits(log)) |-> Exits(log)[i].id]
Reverse(seq) == [i \in 1..Len(seq) |-> seq[Len(seq) + 1 - i]]

\* every handler that started between the start and the completion of a
\* handler has completed before that one did
WellNested(log) ==
    \A a \in 1..Len(log), b \in 1..Len(log) :
        (a < b /\ log[a].ev = "enter" /\ log[b].ev = "exit" /\ log[a].pos = log[b].pos)
            => \A c \in (a + 1)..(b - 1) :
                  log[c].ev = "enter"
                      => \E d \in (c + 1)..(b - 1) :
                            log[d].ev = "exit" /\ log[d].pos = log[c].pos

\* C16: the handlers of a list run nested in one another: a handler
\* completes only after every later handler it started has completed, the
\* handlers still open are those of the call stack, in list order, and when
\* every handler has called its continuation once the handlers complete in
\* the reverse of the list order.
C16_Nested ==
    HitChain(req) =>
        /\ WellNested(req.log)
        /\ \A i \in 1..Len(req.stack) - 1 : req.stack[i].pos < req.stack[i + 1].pos
        /\ \A pos \in Positions(req) :
              (Count(req.log, "enter", pos) = 1 /\ ~Exited(req, pos))
                  <=> \E i \in 1..Len(req.stack) : req.stack[i].pos = pos
        /\ (req.pc = "done" /\ EachCalledOnce(req))
              => ExitedIds(req.log) = Reverse(ListIds(req.cur))

\* h1, h2, h3 each called the continuation once: they completed h3, h2, h1
C16_Witness ==
    /\ req.pc = "done" /\ HitChain(req) /\ EachCalledOnce(req)
    /\ EnteredIds(req.log) = <<"h1", "h2", "h3">>
    /\ ExitedIds(req.log) = <<"h3", "h2", "h1">>

\* the handler at position pos threw in the dispatch r
Threw(r, pos) == Count(r.log, "throw", pos) >= 1

\* C17, the state after a handler threw: the dispatch has ended by the
\* exception and no frame is left; the throw is the last thing that happened
\* in it, so no handler started and none of the open ones went on after it.
C17_Propagated ==
    \A i \in 1..Len(req.log) :
        req.log[i].ev = "throw"
            => /\ req.pc = "thrown"
               /\ req.stack = <<>>
               /\ i = Len(req.log)

\* C17, the steps: the step in which a handler throws leaves table and
\* prefix alone, and after it no handler step is taken for that dispatch.
C17_NothingAfter ==
    /\ req'.pc = "thrown" => handlers_' = handlers_ /\ prefix_' = prefix_
    /\ req.pc = "thrown" => req' \in {req, Idle}

\* C17: an exception thrown by a handler of a list is not caught by the
\* router: it leaves the dispatcher, no handler starts afterwards, the
\* handlers that had called down to the thrower are not resumed, and the
\* table and the prefix are unchanged.
C17_ExceptionPropagates == []C17_Propagated /\ [][C17_NothingAfter]_vars

\* h2 threw after h1 had called it: h1 was not resumed and h3 never ran
C17_Witness ==
    /\ req.pc = "thrown" /\ HitChain(req) /\ Len(req.cur.ws) = 3
    /\ Threw(req, 1)
    /\ Count(req.log, "enter", 0) = 1 /\ ~Exited(req, 0)
    /\ Count(req.log, "enter", 2) = 0

\* C18: of the router dispatchers a pipeline applies to one Context at most
\* one runs a handler: once one has matched and run its handlers, the later
\* ones invoke nothing.
C18_AtMostOneChain == req.hits <= 1

\* C19, the bounds: with handlers that call at most once a dispatch of a
\* stored callable of N handlers has started at most N of them, its cursor
\* is at most N and no access was out of range; a dispatch that did not
\* match has returned at once with nothing run; and so does the callable
\* composed of an empty list.
C19_Bounded ==
    /\ req.res = "hit"
          => /\ Len(Entered(req.log)) <= Len(req.cur.ws)
             /\ req.index <= Len(req.cur.ws)
             /\ ~req.ub
    /\ req.res \in {"miss", "skip"} => req.pc = "done" /\ req.log = <<>>
    /\ LET e == RunComposed([req EXCEPT !.cur = ComposedCallable(<<>>)])
       IN  e.pc = "done" /\ e.log = req.log /\ e.stack = req.stack

\* C19: every dispatch through handlers that terminate and call their
\* continuation at most once returns, within the bounds above.
C19_Terminates == []C19_Bounded /\ (req.pc = "running" ~> req.pc = "done")

\* a dispatch through three handlers has returned with the cursor at 3
C19_Witness ==
    /\ req.pc = "done" /\ HitChain(req) /\ Len(req.cur.ws) = 3
    /\ Len(Entered(req.log)) = 3 /\ req.index = 3

====
